---------------------------- MODULE Spec2Model ----------------------------
(***************************************************************************)
(* A model of pubmed_filter.py: one command-line run that searches PubMed, *)
(* fetches the summaries of the hits, keeps the records with at least one  *)
(* non-academic author and writes or prints the report.                    *)
(*                                                                         *)
(* Representation.  A Python str is a sequence of one-character strings,   *)
(* so that lower(), the `in` substring test, join and split are computed   *)
(* character by character.  An optional value (a dict key that may be      *)
(* absent, None) is a sequence of length 0 or 1: <<>> is "absent"/None and *)
(* <<v>> is "present with value v".  A dict whose key order matters (a     *)
(* report row) is a sequence of [key, value] items in insertion order.     *)
(***************************************************************************)
EXTENDS Integers, Sequences, FiniteSets, TLC

(***************************************************************************)
(* Bounds of the model.                                                    *)
(***************************************************************************)
MaxIds == 2          \* identifiers in one search response
MaxPapers == 2       \* values in one summary response
MaxAuthors == 2      \* authors, in total, in one input of the filter

(***************************************************************************)
(* Text.                                                                   *)
(***************************************************************************)
UpperChars == <<"A","B","C","D","E","F","G","H","I","J","K","L","M",
                "N","O","P","Q","R","S","T","U","V","W","X","Y","Z">>
LowerChars == <<"a","b","c","d","e","f","g","h","i","j","k","l","m",
                "n","o","p","q","r","s","t","u","v","w","x","y","z">>

\* str.lower() on one character
LowerChar(c) ==
    IF \E i \in DOMAIN UpperChars : UpperChars[i] = c
    THEN LowerChars[CHOOSE i \in DOMAIN UpperChars : UpperChars[i] = c]
    ELSE c

\* str.lower()
Lower(s) == [i \in DOMAIN s |-> LowerChar(s[i])]

\* Python's `k in s` on strings
Contains(s, k) ==
    \E i \in 1..(Len(s) - Len(k) + 1) : SubSeq(s, i, i + Len(k) - 1) = k

\* sep.join(parts)
RECURSIVE Join(_, _)
Join(parts, sep) ==
    IF parts = <<>> THEN <<>>
    ELSE IF Len(parts) = 1 THEN parts[1]
    ELSE parts[1] \o sep \o Join(Tail(parts), sep)

\* dict.get(key, default) on an optional entry
Get(entry, default) == IF entry = <<>> THEN default ELSE entry[1]

\* Python truthiness of an optional string: None and "" are falsy
Truthy(entry) == entry # <<>> /\ entry[1] # <<>>

EmptyStr == <<>>
Unknown == <<"U","n","k","n","o","w","n">>
NoTitle == <<"N","o"," ","t","i","t","l","e">>
NA == <<"N","/","A">>
CommaSpace == <<","," ">>
Comma == <<",">>

AcademicKeywords ==
    << <<"u","n","i","v","e","r","s","i","t","y">>,
       <<"c","o","l","l","e","g","e">>,
       <<"i","n","s","t","i","t","u","t","e">>,
       <<"l","a","b">>,
       <<"h","o","s","p","i","t","a","l">> >>


(***************************************************************************)
(* filter_non_academic_authors.  An author is a dict with the optional     *)
(* keys name, affiliation and email.  A value of the summary response is   *)
(* a JSON object with the optional keys uid, title, pubdate and authors,   *)
(* or (type = "array") a JSON array, which has no get method.              *)
(***************************************************************************)

\* line 53 with the keyword test done on the affiliation as it is written
IsNonAcademic_CaseSensitive(affiliation) ==
    /\ affiliation # EmptyStr
    /\ ~ \E k \in DOMAIN AcademicKeywords :
            Contains(affiliation, AcademicKeywords[k])

\* line 53: affiliation and not any(keyword in affiliation.lower() ...)
IsNonAcademic(affiliation) ==
    /\ affiliation # EmptyStr
    /\ ~ \E k \in DOMAIN AcademicKeywords :
            Contains(Lower(affiliation), AcademicKeywords[k])

\* lines 57-58 with the first non-empty email kept
NextEmail_FirstWins(corresponding_email, email) ==
    IF email # EmptyStr /\ corresponding_email = <<>>
    THEN <<email>> ELSE corresponding_email

\* lines 57-58: if email: corresponding_email = email
NextEmail(corresponding_email, email) ==
    IF email # EmptyStr THEN <<email>> ELSE corresponding_email

\* lines 45-47: the three accumulators of one paper
NoAuthorsSeen ==
    [non_academic_authors |-> <<>>,
     company_affiliations |-> <<>>,
     corresponding_email  |-> <<>>]

\* lines 50-58: the body of the loop over the authors
AuthorStep(acc, author) ==
    LET affiliation == Get(author.affiliation, EmptyStr)
        email       == Get(author.email, EmptyStr)
    IN  [non_academic_authors |->
             IF IsNonAcademic(affiliation)
             THEN Append(acc.non_academic_authors, Get(author.name, Unknown))
             ELSE acc.non_academic_authors,
         company_affiliations |->
             IF IsNonAcademic(affiliation)
             THEN Append(acc.company_affiliations, affiliation)
             ELSE acc.company_affiliations,
         corresponding_email  |-> NextEmail(acc.corresponding_email, email)]

\* lines 49-58: for author in authors
RECURSIVE ScanAuthors(_, _)
ScanAuthors(authors, acc) ==
    IF authors = <<>> THEN acc
    ELSE ScanAuthors(Tail(authors), AuthorStep(acc, Head(authors)))

\* the keys of a report row, in the order the dict literal of lines 61-68
\* inserts them
RowKeys ==
    <<"PubmedID", "Title", "Publication Date", "Non-academic Author(s)",
      "Company Affiliation(s)", "Corresponding Author Email">>

\* lines 61-68: the dict appended to results
ReportRow(paper, acc) ==
    << [key |-> RowKeys[1], value |-> Get(paper.uid, Unknown)],
       [key |-> RowKeys[2], value |-> Get(paper.title, NoTitle)],
       [key |-> RowKeys[3], value |-> Get(paper.pubdate, Unknown)],
       [key |-> RowKeys[4], value |-> Join(acc.non_academic_authors, CommaSpace)],
       [key |-> RowKeys[5], value |-> Join(acc.company_affiliations, CommaSpace)],
       [key |-> RowKeys[6], value |->
            IF Truthy(acc.corresponding_email)
            THEN acc.corresponding_email[1] ELSE NA] >>

\* lines 43-68: the rows one paper adds to results
RowsOfPaper(paper) ==
    LET acc == ScanAuthors(Get(paper.authors, <<>>), NoAuthorsSeen)
    IN  IF acc.non_academic_authors # <<>>
        THEN << ReportRow(paper, acc) >> ELSE <<>>

\* lines 42-69
RECURSIVE filter_non_academic_authors(_)
filter_non_academic_authors(papers) ==
    IF papers = <<>> THEN <<>>
    ELSE RowsOfPaper(Head(papers)) \o filter_non_academic_authors(Tail(papers))

\* line 44: paper.get raises AttributeError on a value that is not a dict
FilterRaises(papers) == \E i \in DOMAIN papers : papers[i].type # "object"

\* row[key] of a report row
Field(row, key) ==
    row[CHOOSE i \in DOMAIN row : row[i].key = key].value

(***************************************************************************)
(* The inputs of a run: the command line, the answers of the two PubMed    *)
(* endpoints and the destination file as the run finds it.                 *)
(***************************************************************************)
Queries == { <<"f","l","u">>, <<"g","u","t"," ","R","N","A">> }

OutPath == <<"o",".","c","s","v">>

\* args.file: None without -f, else the string given
FileArgs == { <<>>, <<EmptyStr>>, <<OutPath>> }

IdPool == { <<"7">>, <<"4","2">> }

IdLists == UNION { [1..n -> IdPool] : n \in 0..MaxIds }

\* response.status and the JSON body of the search endpoint; the body of a
\* failed exchange carries no result
SearchResponses ==
    { [status |-> "connection_error", esearchresult |-> <<>>],
      [status |-> "http_error", esearchresult |-> <<>>],
      [status |-> "ok", esearchresult |-> <<>>],
      [status |-> "ok", esearchresult |-> << [idlist |-> <<>>] >>] }
    \cup { [status |-> "ok", esearchresult |-> << [idlist |-> <<ids>>] >>] :
             ids \in IdLists }

Author(name, affiliation, email) ==
    [name |-> name, affiliation |-> affiliation, email |-> email]

Ann  == Author(<< <<"A","n","n">> >>, << <<"A","c","m","e">> >>,
               << <<"a","@","x">> >>)
Bob  == Author(<< <<"B","o","b">> >>, << <<"M","I","T"," ","L","a","b">> >>,
               << <<"b","@","u">> >>)
Cy   == Author(<< <<"C","y">> >>, << EmptyStr >>, << <<"c","@","y">> >>)
Anon == Author(<<>>, << <<"P","f","i","z","e","r",","," ","I","n","c">> >>,
               <<>>)
Dee  == Author(<< <<"D","e","e">> >>, << <<"c","o","l","l","e","g","e">> >>,
               << NA >>)
Lee  == Author(<< <<"L","e","e",","," ","J","r">> >>,
               << <<"G","l","a","x","o">> >>, << EmptyStr >>)
Nobody == Author(<<>>, <<>>, <<>>)
Eve  == Author(<< <<"E","v","e">> >>, << <<"C","o","l","l","a","b">> >>, <<>>)

AuthorPool == { Ann, Bob, Cy, Anon, Dee, Lee, Nobody, Eve }

Paper(uid, title, pubdate, authors) ==
    [type |-> "object", uid |-> uid, title |-> title, pubdate |-> pubdate,
     authors |-> authors]

\* the "uids" array that the summary endpoint lists among the values of result
UidsArray ==
    [type |-> "array", uid |-> <<>>, title |-> <<>>, pubdate |-> <<>>,
     authors |-> <<>>]

PaperAcme  == Paper(<< <<"7">> >>, << <<"T","1">> >>, << <<"2","0","2","0">> >>,
                    << <<Ann>> >>)
PaperUniv  == Paper(<< <<"4","2">> >>, << <<"T","2">> >>, << <<"2","0","2","1">> >>,
                    << <<Bob>> >>)
PaperMixed == Paper(<<>>, <<>>, <<>>, << <<Bob, Anon>> >>)
PaperBare  == Paper(<< <<"9">> >>, <<>>, <<>>, <<>>)

PaperPool == { PaperAcme, PaperUniv, PaperMixed, PaperBare, UidsArray }

PaperLists == UNION { [1..n -> PaperPool] : n \in 0..MaxPapers }

\* response.status and the JSON body of the summary endpoint; result holds
\* the values of the mapping in the order the body lists them
DetailResponses ==
    { [status |-> "connection_error", result |-> <<>>],
      [status |-> "http_error", result |-> <<>>],
      [status |-> "ok", result |-> <<>>] }
    \cup { [status |-> "ok", result |-> <<ps>>] : ps \in PaperLists }

\* a file is a sequence of CSV records, a record a sequence of fields
OldContent == << << <<"o","l","d">> >> >>

\* the destination as the run finds it: no file, or a file with content
Disks == { <<>>, <<OldContent>> }

\* the I/O step of save_to_csv that fails, if any: 0 is open(), 1 the
\* header, k + 1 the k-th row
IoFailures == { <<>> } \cup { <<k>> : k \in 0..MaxPapers }

(***************************************************************************)
(* The run.                                                                *)
(***************************************************************************)
VARIABLES
    pc,               \* where main() is: start, search, fetch, filter,
                      \* output, write, done (returned), aborted (raised)
    error,            \* the exception that ended the run, "" if none
    debug,            \* args.debug
    query,            \* args.query
    file,             \* args.file
    searchResp,       \* the search endpoint's answer, once given
    detailResp,       \* the summary endpoint's answer, once given
    ioFail,           \* the failing I/O step of this run, once open() is tried
    paper_ids,        \* main's paper_ids
    papers,           \* main's papers
    filtered_papers,  \* main's filtered_papers
    written,          \* CSV records handed to the file by save_to_csv
    disk0,            \* the destination file before the run
    disk,             \* the destination file
    events,           \* what the run did to the outside, in order
    phase,            \* 1: the run; 2: the same run repeated with the
                      \*    debug flag flipped
    first             \* phase 2: how the run of phase 1 ended

vars == <<pc, error, debug, query, file, searchResp, detailResp, ioFail,
          paper_ids, papers, filtered_papers, written, disk0, disk, events,
          phase, first>>

\* one effect on the outside: a line printed, a GET, an open()
Event(op, what, text, rows) ==
    [op |-> op, what |-> what, text |-> text, rows |-> rows]

NoRun == [pc |-> "", error |-> "", events |-> <<>>, disk |-> <<>>,
          rows |-> <<>>]

Init ==
    /\ pc = "start"
    /\ error = ""
    /\ debug \in BOOLEAN
    /\ query \in Queries
    /\ file \in FileArgs
    /\ searchResp = <<>>
    /\ detailResp = <<>>
    /\ ioFail = <<>>
    /\ paper_ids = <<>>
    /\ papers = <<>>
    /\ filtered_papers = <<>>
    /\ written = 0
    /\ disk0 \in Disks
    /\ disk = disk0
    /\ events = <<>>
    /\ phase = 1
    /\ first = NoRun

\* lines 93-94 with the line printed whatever the flag
DebugEvents_Always(flag, q) ==
    << Event("print", "Searching PubMed for:", <<q>>, <<>>) >>

\* lines 93-94: if args.debug: print(f"Searching PubMed for: {args.query}")
DebugEvents(flag, q) ==
    IF flag THEN << Event("print", "Searching PubMed for:", <<q>>, <<>>) >>
    ELSE <<>>

\* lines 18-19 and 34-35 without raise_for_status()
Raises_NoStatusCheck(resp) == resp.status = "connection_error"

\* lines 18-19 and 34-35: requests.get raises when the exchange fails, and
\* raise_for_status() when the status is not a success
Raises(resp) == resp.status # "ok"

\* line 21: data.get("esearchresult", {}).get("idlist", [])
IdList(resp) ==
    IF resp.esearchresult = <<>> THEN <<>>
    ELSE Get(resp.esearchresult[1].idlist, <<>>)

\* line 37: data.get("result", {}).values()
ResultValues(resp) == Get(resp.result, <<>>)

\* line 26 without the test
SkipsRequest_Never(ids) == FALSE

\* line 26: if not paper_ids
SkipsRequest(ids) == ids = <<>>

\* line 31 with only the first identifier sent
IdParam_FirstOnly(ids) == ids[1]

\* line 31: ",".join(paper_ids)
IdParam(ids) == Join(ids, Comma)

\* the answer an endpoint gives: any, or in phase 2 the one it gave before
Answers(given, all) == IF given = <<>> THEN all ELSE { given[1] }

\* lines 93-94
MainDebug ==
    /\ pc = "start"
    /\ events' = events \o DebugEvents(debug, query)
    /\ pc' = "search"
    /\ UNCHANGED <<error, debug, query, file, searchResp, detailResp, ioFail,
                   paper_ids, papers, filtered_papers, written, disk0, disk,
                   phase, first>>

\* line 96, lines 10-21: fetch_pubmed_papers
FetchPubmedPapers ==
    /\ pc = "search"
    /\ \E resp \in Answers(searchResp, SearchResponses) :
         /\ searchResp' = <<resp>>
         /\ events' = Append(events, Event("GET", "esearch", <<query>>, <<>>))
         /\ IF Raises(resp)
            THEN /\ pc' = "aborted"
                 /\ error' = "search:" \o resp.status
                 /\ UNCHANGED paper_ids
            ELSE /\ pc' = "fetch"
                 /\ paper_ids' = IdList(resp)
                 /\ UNCHANGED error
    /\ UNCHANGED <<debug, query, file, detailResp, ioFail, papers,
                   filtered_papers, written, disk0, disk, phase, first>>

\* line 97, lines 26-27: fetch_paper_details returns [] at once
FetchNoDetails ==
    /\ pc = "fetch"
    /\ SkipsRequest(paper_ids)
    /\ papers' = <<>>
    /\ pc' = "filter"
    /\ UNCHANGED <<error, debug, query, file, searchResp, detailResp, ioFail,
                   paper_ids, filtered_papers, written, disk0, disk, events,
                   phase, first>>

\* line 97, lines 29-37: fetch_paper_details asks the summary endpoint
FetchPaperDetails ==
    /\ pc = "fetch"
    /\ ~SkipsRequest(paper_ids)
    /\ \E resp \in Answers(detailResp, DetailResponses) :
         /\ detailResp' = <<resp>>
         /\ events' = Append(events,
                Event("GET", "esummary", <<IdParam(paper_ids)>>, <<>>))
         /\ IF Raises(resp)
            THEN /\ pc' = "aborted"
                 /\ error' = "fetch:" \o resp.status
                 /\ UNCHANGED papers
            ELSE /\ pc' = "filter"
                 /\ papers' = ResultValues(resp)
                 /\ UNCHANGED error
    /\ UNCHANGED <<debug, query, file, searchResp, ioFail, paper_ids,
                   filtered_papers, written, disk0, disk, phase, first>>

\* line 98, lines 40-69
Filter ==
    /\ pc = "filter"
    /\ IF FilterRaises(papers)
       THEN /\ pc' = "aborted"
            /\ error' = "filter:AttributeError"
            /\ UNCHANGED filtered_papers
       ELSE /\ pc' = "output"
            /\ filtered_papers' = filter_non_academic_authors(papers)
            /\ UNCHANGED error
    /\ UNCHANGED <<debug, query, file, searchResp, detailResp, ioFail,
                   paper_ids, papers, written, disk0, disk, events, phase,
                   first>>

\* line 74 with the test never true
NoResults_Never(rows) == FALSE

\* line 74: if not papers
NoResults(rows) == rows = <<>>

\* line 78 with mode "a": an existing file keeps its content
OpenForWriting_Append(d) == IF d = <<>> THEN << <<>> >> ELSE d

\* line 78: open(filename, mode="w") leaves an empty file
OpenForWriting(d) == << <<>> >>

\* line 79: papers[0].keys()
Keys(row) == [i \in DOMAIN row |-> row[i].key]

\* line 80: writeheader() writes the field names, each as one field
HeaderRecord(fieldnames) == [i \in DOMAIN fieldnames |-> << fieldnames[i] >>]

\* line 81: DictWriter takes row[key] for each key of fieldnames, in order
RowRecord(row, fieldnames) ==
    [i \in DOMAIN fieldnames |-> Field(row, fieldnames[i])]

\* lines 79-81 without writeheader()
CsvRecords_NoHeader(rows) ==
    [i \in DOMAIN rows |-> RowRecord(rows[i], Keys(rows[1]))]

\* lines 79-81: the records save_to_csv hands to the file, in order
CsvRecords(rows) ==
    << HeaderRecord(Keys(rows[1])) >>
      \o [i \in DOMAIN rows |-> RowRecord(rows[i], Keys(rows[1]))]

\* lines 102-103: print(filtered_papers)
PrintRows ==
    /\ pc = "output"
    /\ ~Truthy(file)
    /\ events' = Append(events, Event("print", "rows", <<>>, filtered_papers))
    /\ pc' = "done"
    /\ UNCHANGED <<error, debug, query, file, searchResp, detailResp, ioFail,
                   paper_ids, papers, filtered_papers, written, disk0, disk,
                   phase, first>>

\* lines 100-101, 74-76: save_to_csv with nothing to save
SaveNothing ==
    /\ pc = "output"
    /\ Truthy(file)
    /\ NoResults(filtered_papers)
    /\ events' = Append(events,
           Event("print", "No results to save.", <<>>, <<>>))
    /\ pc' = "done"
    /\ UNCHANGED <<error, debug, query, file, searchResp, detailResp, ioFail,
                   paper_ids, papers, filtered_papers, written, disk0, disk,
                   phase, first>>

\* lines 100-101, 78: save_to_csv opens the destination
OpenFile ==
    /\ pc = "output"
    /\ Truthy(file)
    /\ ~NoResults(filtered_papers)
    /\ \E f \in Answers(ioFail, IoFailures) :
         /\ ioFail' = <<f>>
         /\ events' = Append(events, Event("open", "w", <<file[1]>>, <<>>))
         /\ IF f = <<0>>
            THEN /\ pc' = "aborted"
                 /\ error' = "open:OSError"
                 /\ UNCHANGED <<disk, written>>
            ELSE /\ pc' = "write"
                 /\ disk' = OpenForWriting(disk)
                 /\ written' = 0
                 /\ UNCHANGED error
    /\ UNCHANGED <<debug, query, file, searchResp, detailResp, paper_ids,
                   papers, filtered_papers, disk0, phase, first>>

\* lines 79-81: the header, then one record per row; papers[0] exists by
\* line 74
WriteRecord ==
    /\ pc = "write"
    /\ filtered_papers # <<>>
    /\ written < Len(CsvRecords(filtered_papers))
    /\ IF ioFail[1] = <<written + 1>>
       THEN /\ pc' = "aborted"
            /\ error' = "write:OSError"
            /\ UNCHANGED <<disk, written>>
       ELSE /\ disk' = << Append(disk[1],
                              CsvRecords(filtered_papers)[written + 1]) >>
            /\ written' = written + 1
            /\ UNCHANGED <<pc, error>>
    /\ UNCHANGED <<debug, query, file, searchResp, detailResp, ioFail,
                   paper_ids, papers, filtered_papers, disk0, events, phase,
                   first>>

\* lines 78 (the with block ends) and 82
CloseFile ==
    /\ pc = "write"
    /\ filtered_papers # <<>>
    /\ written = Len(CsvRecords(filtered_papers))
    /\ events' = Append(events,
           Event("print", "Results saved to", <<file[1]>>, <<>>))
    /\ pc' = "done"
    /\ UNCHANGED <<error, debug, query, file, searchResp, detailResp, ioFail,
                   paper_ids, papers, filtered_papers, written, disk0, disk,
                   phase, first>>

Next ==
    \/ MainDebug
    \/ FetchPubmedPapers
    \/ FetchNoDetails
    \/ FetchPaperDetails
    \/ Filter
    \/ PrintRows
    \/ SaveNothing
    \/ OpenFile
    \/ WriteRecord
    \/ CloseFile

Spec == Init /\ [][Next]_vars

(***************************************************************************)
(* The same run twice: once it has ended, the command is given again with  *)
(* the debug flag flipped, the destination as it was, and both endpoints   *)
(* and the file system answering as they did.                              *)
(***************************************************************************)
Rerun ==
    /\ phase = 1
    /\ pc \in {"done", "aborted"}
    /\ first' = [pc |-> pc, error |-> error, events |-> events,
                 disk |-> disk, rows |-> filtered_papers]
    /\ phase' = 2
    /\ debug' = ~debug
    /\ pc' = "start"
    /\ error' = ""
    /\ paper_ids' = <<>>
    /\ papers' = <<>>
    /\ filtered_papers' = <<>>
    /\ written' = 0
    /\ disk' = disk0
    /\ events' = <<>>
    /\ UNCHANGED <<query, file, searchResp, detailResp, ioFail, disk0>>

NextTwin == Next \/ Rerun

SpecTwin == Init /\ [][NextTwin]_vars

(***************************************************************************)
(* The filter on its own: filter_non_academic_authors applied to any list  *)
(* of at most MaxPapers records holding at most MaxAuthors authors in      *)
(* total, each author any of AuthorPool.  The i-th record has the i-th     *)
(* digit as its uid.                                                       *)
(***************************************************************************)
Digits == <<"1","2","3","4","5","6","7","8","9">>

RECURSIVE Sum(_)
Sum(shape) == IF shape = <<>> THEN 0 ELSE Head(shape) + Sum(Tail(shape))

\* how many authors each record has
Shapes ==
    { sh \in UNION { [1..n -> 0..MaxAuthors] : n \in 0..MaxPapers } :
        Sum(sh) <= MaxAuthors }

\* the records of shape sh whose authors, read record after record, are flat
BuildPapers(sh, flat) ==
    [i \in DOMAIN sh |->
        Paper(<< <<Digits[i]>> >>, << <<"T">> >>, << <<"2","0","2","0">> >>,
              << SubSeq(flat, Sum(SubSeq(sh, 1, i - 1)) + 1,
                        Sum(SubSeq(sh, 1, i))) >>)]

InitFilter ==
    /\ pc = "filter"
    /\ error = ""
    /\ debug = FALSE
    /\ query = <<"f","l","u">>
    /\ file = <<>>
    /\ paper_ids = << <<"7">> >>
    /\ searchResp = << [status |-> "ok",
                        esearchresult |-> << [idlist |-> <<paper_ids>>] >>] >>
    /\ \E sh \in Shapes : \E flat \in [1..Sum(sh) -> AuthorPool] :
          papers = BuildPapers(sh, flat)
    /\ detailResp = << [status |-> "ok", result |-> <<papers>>] >>
    /\ ioFail = <<>>
    /\ filtered_papers = <<>>
    /\ written = 0
    /\ disk0 = <<>>
    /\ disk = disk0
    /\ events = << Event("GET", "esearch", <<query>>, <<>>),
                   Event("GET", "esummary", <<IdParam(paper_ids)>>, <<>>) >>
    /\ phase = 1
    /\ first = NoRun

NextFilter == Filter

SpecFilter == InitFilter /\ [][NextFilter]_vars

(***************************************************************************)
(* What the properties below speak of.                                     *)
(***************************************************************************)

\* s.split(sep): the pieces of s between the occurrences of sep, found from
\* the left
RECURSIVE Split(_, _)
Split(s, sep) ==
    LET hits == { i \in 1..(Len(s) - Len(sep) + 1) :
                    SubSeq(s, i, i + Len(sep) - 1) = sep }
    IN  IF hits = {} THEN << s >>
        ELSE LET i == CHOOSE h \in hits : \A g \in hits : h <= g
             IN  << SubSeq(s, 1, i - 1) >>
                   \o Split(SubSeq(s, i + Len(sep), Len(s)), sep)

AuthorsOf(paper) == Get(paper.authors, <<>>)

\* an author with a non-empty affiliation that, lower-cased, contains none
\* of the five keywords
Qualifies(author) ==
    /\ author.affiliation # <<>>
    /\ author.affiliation[1] # EmptyStr
    /\ \A k \in DOMAIN AcademicKeywords :
          ~Contains(Lower(author.affiliation[1]), AcademicKeywords[k])

\* a record with at least one such author
Retained(paper) ==
    \E i \in DOMAIN AuthorsOf(paper) : Qualifies(AuthorsOf(paper)[i])

\* the qualifying authors of a record, in author-list order
QualifyingAuthors(paper) == SelectSeq(AuthorsOf(paper), Qualifies)

HasEmail(author) == author.email # <<>> /\ author.email[1] # EmptyStr

\* the positions of the authors of a record that have a non-empty email
EmailPositions(paper) ==
    { i \in DOMAIN AuthorsOf(paper) : HasEmail(AuthorsOf(paper)[i]) }

\* the last non-empty email of a record that has one
LastEmail(paper) ==
    LET last == CHOOSE i \in EmailPositions(paper) :
                   \A j \in EmailPositions(paper) : j <= i
    IN  AuthorsOf(paper)[last].email[1]

\* the filter has returned
Filtered == pc \in {"output", "write", "done"}

\* the retained records of the filter's input, in input order
Kept == SelectSeq(papers, Retained)

IsGet(e) == e.op = "GET"
IsSummaryGet(e) == e.op = "GET" /\ e.what = "esummary"
IsOpen(e) == e.op = "open"
IsRowDump(e) == e.op = "print" /\ e.what = "rows"
IsNotice(e) == e.op = "print" /\ e.what = "No results to save."
IsSaved(e) == e.op = "print" /\ e.what = "Results saved to"
IsReportOutput(e) == IsRowDump(e) \/ IsNotice(e) \/ IsSaved(e)

Gets == SelectSeq(events, IsGet)
SummaryGets == SelectSeq(events, IsSummaryGet)
Opens == SelectSeq(events, IsOpen)
ReportOutputs == SelectSeq(events, IsReportOutput)

DebugLine == Event("print", "Searching PubMed for:", <<query>>, <<>>)

(***************************************************************************)
(* C1.  A record yields a row if and only if it has an author whose        *)
(* affiliation is non-empty and, lower-cased, contains no academic         *)
(* keyword, and then exactly one: the rows are, one for one and in order,  *)
(* the retained records of the input (told apart by their uid).            *)
(***************************************************************************)
C1_RowIffNonAcademicAuthor ==
    Filtered =>
        /\ Len(filtered_papers) = Len(Kept)
        /\ \A i \in DOMAIN filtered_papers :
              Field(filtered_papers[i], "PubmedID") = Get(Kept[i].uid, Unknown)

\* a retained record followed by one whose only authors are academic or
\* without affiliation
C1_Witness ==
    /\ pc = "output"
    /\ Len(papers) = 2
    /\ Retained(papers[1])
    /\ ~Retained(papers[2])
    /\ AuthorsOf(papers[2]) # <<>>
    /\ Len(filtered_papers) = 1

(***************************************************************************)
(* C2 as stated.  The email field of a row is the last non-empty email of  *)
(* the record's authors, and it is "N/A" exactly when no author of the     *)
(* record has a non-empty email.                                           *)
(***************************************************************************)
C2_EmailNAExactlyWhenNone ==
    Filtered =>
        \A i \in DOMAIN filtered_papers :
           i <= Len(Kept) =>
              LET mail == Field(filtered_papers[i], "Corresponding Author Email")
              IN  /\ EmailPositions(Kept[i]) # {} => mail = LastEmail(Kept[i])
                  /\ mail = NA <=> EmailPositions(Kept[i]) = {}

(***************************************************************************)
(* C2 as amended.  The email field of a row is the last non-empty email of *)
(* the record's authors, whatever the class of the author who has it, and  *)
(* "N/A" when no author has one (an email that is itself "N/A" is shown    *)
(* as such).                                                               *)
(***************************************************************************)
C2_EmailIsLastNonEmpty ==
    Filtered =>
        \A i \in DOMAIN filtered_papers :
           i <= Len(Kept) =>
              Field(filtered_papers[i], "Corresponding Author Email")
                = IF EmailPositions(Kept[i]) = {} THEN NA
                  ELSE LastEmail(Kept[i])

\* a row whose email comes from an author who is not non-academic and who
\* follows a non-academic author with another email
C2_Witness ==
    /\ pc = "output"
    /\ \E i \in DOMAIN filtered_papers :
          /\ i <= Len(Kept)
          /\ Cardinality(EmailPositions(Kept[i])) = 2
          /\ LET as == AuthorsOf(Kept[i])
             IN  /\ Qualifies(as[1])
                 /\ ~Qualifies(as[2])
                 /\ as[1].email # as[2].email
                 /\ Field(filtered_papers[i], "Corresponding Author Email")
                      = as[2].email[1]

(***************************************************************************)
(* C3.  In every row the names field and the affiliations field, taken     *)
(* apart at ", ", have as many elements as the record has non-academic     *)
(* authors, and the i-th elements are the name and the affiliation of the  *)
(* i-th of them.                                                           *)
(***************************************************************************)
C3_JoinedFieldsAligned ==
    Filtered =>
        \A i \in DOMAIN filtered_papers :
           i <= Len(Kept) =>
              LET names == Split(Field(filtered_papers[i],
                                       "Non-academic Author(s)"), CommaSpace)
                  affs  == Split(Field(filtered_papers[i],
                                       "Company Affiliation(s)"), CommaSpace)
                  qa    == QualifyingAuthors(Kept[i])
              IN  /\ Len(names) = Len(affs)
                  /\ Len(names) = Len(qa)
                  /\ \A j \in DOMAIN qa :
                        /\ names[j] = Get(qa[j].name, Unknown)
                        /\ affs[j] = qa[j].affiliation[1]

(***************************************************************************)
(* C4.  Once fetch_paper_details is over: with an empty identifier list    *)
(* it has sent no summary request and returned nothing; otherwise it has   *)
(* sent exactly one, whose id parameter, taken apart at ",", is the        *)
(* identifier list.                                                        *)
(***************************************************************************)
C4_OneBatchedRequestOrNone ==
    pc \notin {"start", "search", "fetch"} =>
        IF paper_ids = <<>>
        THEN SummaryGets = <<>> /\ papers = <<>>
        ELSE /\ Len(SummaryGets) = 1
             /\ Len(SummaryGets[1].text) = 1
             /\ Split(SummaryGets[1].text[1], Comma) = paper_ids

\* two different identifiers went out in one request
C4_Witness ==
    /\ pc = "filter"
    /\ Len(paper_ids) = 2
    /\ paper_ids[1] # paper_ids[2]
    /\ Len(SummaryGets) = 1

(***************************************************************************)
(* C5 as stated.  A run that ends with no rows has printed the "no         *)
(* results" notice and has not touched the destination file, with or       *)
(* without a destination.                                                  *)
(***************************************************************************)
C5_NoticeWheneverNoRows ==
    (pc = "done" /\ filtered_papers = <<>>) =>
        /\ \E i \in DOMAIN events : IsNotice(events[i])
        /\ Opens = <<>>
        /\ disk = disk0

(***************************************************************************)
(* C5 as amended.  While there are no rows the destination file is never   *)
(* opened and stays as it was; a run that ends with no rows has printed    *)
(* the "no results" notice (and no rows) if a non-empty destination was    *)
(* given, and the empty row collection (and no notice) if not.             *)
(***************************************************************************)
C5_NoRowsNoFileIO ==
    filtered_papers = <<>> =>
        /\ Opens = <<>>
        /\ disk = disk0
        /\ pc = "done" =>
              /\ Len(ReportOutputs) = 1
              /\ IF Truthy(file)
                 THEN IsNotice(ReportOutputs[1])
                 ELSE IsRowDump(ReportOutputs[1])
                      /\ ReportOutputs[1].rows = <<>>

\* records came back, none was retained, and the destination, which
\* exists, was given
C5_Witness ==
    /\ pc = "done"
    /\ papers # <<>>
    /\ filtered_papers = <<>>
    /\ Truthy(file)
    /\ disk0 # <<>>

(***************************************************************************)
(* C6.  Once a network call has failed (no connection, or a status that is *)
(* not a success) the run is over: the failed request is the last thing it *)
(* did, no record was filtered, nothing of the report was printed and the  *)
(* destination file was neither opened nor changed.                        *)
(***************************************************************************)
C6_NetworkFailureEndsRun ==
    (\/ searchResp # <<>> /\ searchResp[1].status # "ok"
     \/ detailResp # <<>> /\ detailResp[1].status # "ok") =>
        /\ pc = "aborted"
        /\ events # <<>> /\ IsGet(events[Len(events)])
        /\ papers = <<>>
        /\ filtered_papers = <<>>
        /\ ReportOutputs = <<>>
        /\ Opens = <<>>
        /\ disk = disk0

\* the summary request was answered with an error status, with a destination
\* given that exists
C6_Witness ==
    /\ pc = "aborted"
    /\ detailResp # <<>>
    /\ detailResp[1].status = "http_error"
    /\ Truthy(file)
    /\ disk0 # <<>>

(***************************************************************************)
(* C7 as stated.  A run that has ended has either completed, or aborted    *)
(* with nothing of the report printed and the destination file as it was.  *)
(***************************************************************************)
C7_AbortLeavesNoOutput ==
    pc = "aborted" => ReportOutputs = <<>> /\ disk = disk0

\* the records of the report, if it goes to a file
WholeFile == << CsvRecords(filtered_papers) >>

(***************************************************************************)
(* C7 as amended.  A run that completed has produced its report: the rows  *)
(* printed, or the notice, or the whole file and the confirmation.  A run  *)
(* that aborted has printed nothing of the report, and has left the        *)
(* destination file as it was unless it failed while writing, and then the *)
(* file holds only the records written before the failure: the beginning   *)
(* of the report, not all of it.                                           *)
(***************************************************************************)
C7_CompleteOrAbortedWithPrefix ==
    /\ pc = "done" =>
          /\ Len(ReportOutputs) = 1
          /\ IsReportOutput(events[Len(events)])
          /\ IsRowDump(ReportOutputs[1]) =>
                ReportOutputs[1].rows = filtered_papers /\ disk = disk0
          /\ IsNotice(ReportOutputs[1]) => disk = disk0
          /\ IsSaved(ReportOutputs[1]) => disk = WholeFile
    /\ pc = "aborted" =>
          /\ ReportOutputs = <<>>
          /\ IF error = "write:OSError"
             THEN /\ disk # <<>>
                  /\ Len(disk[1]) < Len(WholeFile[1])
                  /\ disk[1] = SubSeq(WholeFile[1], 1, Len(disk[1]))
             ELSE disk = disk0

\* the write failed after the header went out, over a file that existed
C7_Witness ==
    /\ pc = "aborted"
    /\ error = "write:OSError"
    /\ written = 1
    /\ disk0 # <<>>
    /\ disk # disk0

(***************************************************************************)
(* C8 as stated.  A run that completed has made exactly two network calls, *)
(* the search and then the summary request.                                *)
(***************************************************************************)
C8_ExactlyTwoCalls ==
    pc = "done" =>
        /\ Len(Gets) = 2
        /\ Gets[1].what = "esearch"
        /\ Gets[2].what = "esummary"

(***************************************************************************)
(* C8 as amended.  A run that completed has made the search request and,   *)
(* after it, the summary request if and only if the search gave at least   *)
(* one identifier: two calls, or one.  At every moment the requests made   *)
(* come before anything of the report is printed and before the file is    *)
(* opened, and the summary request is never before the search request.     *)
(***************************************************************************)
C8_SearchThenAtMostOneFetch ==
    /\ pc = "done" =>
          /\ Gets # <<>> /\ Gets[1].what = "esearch"
          /\ IF paper_ids = <<>>
             THEN Len(Gets) = 1
             ELSE Len(Gets) = 2 /\ Gets[2].what = "esummary"
    /\ \A i, j \in DOMAIN events :
          i < j =>
             /\ ~(IsGet(events[j]) /\ (IsReportOutput(events[i]) \/ IsOpen(events[i])))
             /\ ~(IsSummaryGet(events[i]) /\ IsGet(events[j]))

\* a run with both requests that went on to write the file
C8_Witness ==
    /\ pc = "done"
    /\ Len(Gets) = 2
    /\ Opens # <<>>

\* how the run under way has ended
ThisRun == [pc |-> pc, error |-> error, events |-> events, disk |-> disk,
            rows |-> filtered_papers]

(***************************************************************************)
(* C9.  When the run has been repeated with the debug flag flipped, the    *)
(* same inputs and the same answers, and has ended again: both runs ended  *)
(* the same way, with the same rows and the same destination file, and     *)
(* what the run with the flag did is the diagnostic line naming the query  *)
(* followed by exactly what the run without it did.                        *)
(***************************************************************************)
C9_DebugOnlyAddsOneLine ==
    (phase = 2 /\ pc \in {"done", "aborted"}) =>
        LET with    == IF debug THEN ThisRun ELSE first
            without == IF debug THEN first ELSE ThisRun
        IN  /\ with.events = << DebugLine >> \o without.events
            /\ with.events[2].what = "esearch"
            /\ with.pc = without.pc
            /\ with.error = without.error
            /\ with.rows = without.rows
            /\ with.disk = without.disk

\* both runs wrote a report of two rows to the file
C9_Witness ==
    /\ phase = 2
    /\ pc = "done"
    /\ first.pc = "done"
    /\ Len(filtered_papers) = 2
    /\ disk # <<>> /\ disk # disk0

(***************************************************************************)
(* C10.  After a successful write of a non-empty report the destination    *)
(* file holds the header, made of the six field names in order, and then   *)
(* one record per row, in the order of the rows, which is the order of the *)
(* retained records in the filter's input; nothing else, so what the file  *)
(* held before is gone.  Every row has those six fields in that order.     *)
(***************************************************************************)
C10_FileIsHeaderThenRowsInOrder ==
    (pc = "done" /\ Truthy(file) /\ filtered_papers # <<>>) =>
        /\ disk # <<>>
        /\ Len(disk[1]) = 1 + Len(filtered_papers)
        /\ disk[1][1] = [i \in DOMAIN RowKeys |-> << RowKeys[i] >>]
        /\ \A k \in DOMAIN filtered_papers :
              /\ Keys(filtered_papers[k]) = RowKeys
              /\ disk[1][k + 1] =
                    [i \in DOMAIN RowKeys |-> filtered_papers[k][i].value]
              /\ k <= Len(Kept)
              /\ disk[1][k + 1][1] = Get(Kept[k].uid, Unknown)
        /\ Len(Kept) = Len(filtered_papers)

\* two retained records with different uids, written over a file that
\* existed
C10_Witness ==
    /\ pc = "done"
    /\ Truthy(file)
    /\ disk0 # <<>>
    /\ Len(filtered_papers) = 2
    /\ Len(disk[1]) = 3
    /\ disk[1][2][1] # disk[1][3][1]

=============================================================================
